---- MODULE Spec2Model ----
(***************************************************************************)
(* SCMI clock protocol engine (drivers/firmware/arm_scmi/clock.c).        *)
(*                                                                         *)
(* Seven specifications share the variables:                                 *)
(*   Spec      the command dispatcher (clk_proto_ops) after                *)
(*             scmi_clock_protocol_init, one call at a time;               *)
(*   SpecRate  callers overlapping inside scmi_clock_rate_set, the only    *)
(*             operation that touches shared mutable state;                *)
(*   SpecBuild scmi_clock_protocol_init itself, request by request,        *)
(*             against a firmware with several domains that keeps to the   *)
(*             protocol or fails;                                          *)
(*   SpecEnum  the same against a firmware with one domain whose paginated *)
(*             replies may be out of spec;                                 *)
(*   SpecLoop  the two enumerations of SpecEnum alone, with the fairness   *)
(*             of a running thread;                                        *)
(*   SpecStrict the same against a firmware with one domain that keeps to  *)
(*             the protocol or fails;                                      *)
(*   SpecCodec the pure functions: the rate on the wire and the decoder of *)
(*             notification reports.                                       *)
(***************************************************************************)
EXTENDS Integers, Sequences, FiniteSets, Bags, TLC

VARIABLES
    version,        \* clock_info.version: <<major, minor>>
    num_clocks,     \* clock_info.num_clocks
    max_async_req,  \* clock_info.max_async_req
    cur_async_req,  \* clock_info.cur_async_req (atomic_t)
    clk,            \* clock_info.clk[]: the domain table
    clock_config,   \* clock_info.clock_config_set/get: "legacy" | "v2" | "unset"
    inflight,       \* bag of the scmi_clock_rate_set calls waiting for the transport
    last,           \* observation of the call that returned most recently
    pc,             \* position of scmi_clock_protocol_init
    clkid,          \* its loop variable
    st,             \* struct scmi_iterator_state of the running iterator
    attributes,     \* scmi_clock_attributes_get's local: the attribute word
    fw              \* per domain: what the firmware answered during init

vars == <<version, num_clocks, max_async_req, cur_async_req, clk, clock_config,
          inflight, last, pc, clkid, st, attributes, fw>>

(***************************************************************************)
(* Bounds of the model.                                                    *)
(***************************************************************************)
NumThreads == 3     \* callers that can be inside scmi_clock_rate_set at once
MaxAsync == 2       \* largest max_async_req the firmware announces
MaxClocks == 1      \* largest num_clocks the dispatcher's firmware announced
SCMI_MAX_NUM_RATES == 3  \* capacity of scmi_clock_info.list.rates[] (16 in the driver)
MaxInitClocks == 2  \* largest num_clocks the firmware announces to protocol_init
MaxPage == 3        \* most entries the firmware announces in one reply
MaxRemaining == 2   \* most entries the firmware announces as remaining

ClockIds == 0..(MaxClocks - 1)

(***************************************************************************)
(* Error codes, as the strings of their names.                             *)
(***************************************************************************)
EINVAL == "EINVAL"
EACCES == "EACCES"
EPROTO == "EPROTO"
ENOMEM == "ENOMEM"
ETIMEDOUT == "ETIMEDOUT"
OK == "0"

\* what xfer_get_init can return, and what do_xfer/do_xfer_with_response can
AllocResults == {OK, ENOMEM}
XferResults == {OK, ETIMEDOUT}

(***************************************************************************)
(* Bit positions of the packed words.                                      *)
(***************************************************************************)
CLOCK_STATE_CONTROL_ALLOWED == 31
CLOCK_PARENT_CONTROL_ALLOWED == 30
CLOCK_RATE_CONTROL_ALLOWED == 29

\* x & BIT(n), for a word given as the set of its set bits
TestBit(x, n) == n \in x

(***************************************************************************)
(* struct scmi_clock_info after devm_kcalloc.                              *)
(***************************************************************************)
ZeroClk ==
    [ name |-> "",
      enable_latency |-> 0,
      rate_discrete |-> FALSE,
      rate_changed_notifications |-> FALSE,
      rate_change_requested_notifications |-> FALSE,
      state_ctrl_forbidden |-> FALSE,
      rate_ctrl_forbidden |-> FALSE,
      parent_ctrl_forbidden |-> FALSE,
      list |-> [num_rates |-> 0, rates |-> [i \in 1..SCMI_MAX_NUM_RATES |-> 0]],
      range |-> [min_rate |-> 0, max_rate |-> 0, step_size |-> 0],
      num_parents |-> 0,
      parents |-> <<>> ]

\* mutant: the permission word is read whatever the round trip returned
Mut_get_permissions(c, ret, perm) ==
    [c EXCEPT
        !.state_ctrl_forbidden = ~TestBit(perm, CLOCK_STATE_CONTROL_ALLOWED),
        !.rate_ctrl_forbidden = ~TestBit(perm, CLOCK_RATE_CONTROL_ALLOWED),
        !.parent_ctrl_forbidden = ~TestBit(perm, CLOCK_PARENT_CONTROL_ALLOWED)]

(***************************************************************************)
(* scmi_clock_get_permissions: the record after the CLOCK_GET_PERMISSIONS  *)
(* round trip returned ret with permission word perm.                      *)
(***************************************************************************)
scmi_clock_get_permissions(c, ret, perm) ==
    IF ret = OK
    THEN [c EXCEPT
            !.state_ctrl_forbidden = ~TestBit(perm, CLOCK_STATE_CONTROL_ALLOWED),
            !.rate_ctrl_forbidden = ~TestBit(perm, CLOCK_RATE_CONTROL_ALLOWED),
            !.parent_ctrl_forbidden = ~TestBit(perm, CLOCK_PARENT_CONTROL_ALLOWED)]
    ELSE c

(***************************************************************************)
(* enum clk_state and the OEM type of a plain state change.                *)
(***************************************************************************)
CLK_STATE_DISABLE == 0
CLK_STATE_ENABLE == 1
CLK_STATE_RESERVED == 2
CLK_STATE_UNCHANGED == 3
NULL_OEM_TYPE == 0

(***************************************************************************)
(* What one call did with the transport: its return value, and how many    *)
(* times it called xfer_get_init, do_xfer[_with_response] and xfer_put.    *)
(***************************************************************************)
Rejected(e) == [ret |-> e, init |-> 0, sent |-> 0, put |-> 0]

\* mutant: a failed do_xfer returns without xfer_put
Mut_RoundTrip(a, x) ==
    IF a # OK
    THEN [ret |-> a, init |-> 1, sent |-> 0, put |-> 0]
    ELSE [ret |-> x, init |-> 1, sent |-> 1, put |-> IF x = OK THEN 1 ELSE 0]

\* xfer_get_init returning a, then (if allocated) do_xfer returning x and
\* xfer_put
RoundTrip(a, x) ==
    IF a # OK
    THEN [ret |-> a, init |-> 1, sent |-> 0, put |-> 0]
    ELSE [ret |-> x, init |-> 1, sent |-> 1, put |-> 1]

\* scmi_clock_domain_lookup: TRUE when it returns ERR_PTR(-EINVAL)
scmi_clock_domain_lookup_err(clk_id) == clk_id >= num_clocks

scmi_clock_rate_get(clk_id, a, x) == RoundTrip(a, x)

scmi_clock_get_parent(clk_id, a, x) == RoundTrip(a, x)

scmi_clock_config_set(clk_id, state, oem_type, a, x) ==
    IF state >= CLK_STATE_RESERVED THEN Rejected(EINVAL) ELSE RoundTrip(a, x)

scmi_clock_config_set_v2(clk_id, state, oem_type, a, x) ==
    IF state = CLK_STATE_RESERVED
       \/ (oem_type = NULL_OEM_TYPE /\ state = CLK_STATE_UNCHANGED)
    THEN Rejected(EINVAL)
    ELSE RoundTrip(a, x)

\* ci->clock_config_set(...)
clock_config_set(clk_id, state, oem_type, a, x) ==
    IF clock_config = "v2"
    THEN scmi_clock_config_set_v2(clk_id, state, oem_type, a, x)
    ELSE scmi_clock_config_set(clk_id, state, oem_type, a, x)

\* enabled: whether the caller passed a non-NULL bool *enabled
scmi_clock_config_get(clk_id, oem_type, enabled, a, x) ==
    IF ~enabled THEN Rejected(EINVAL) ELSE RoundTrip(a, x)

scmi_clock_config_get_v2(clk_id, oem_type, enabled, a, x) == RoundTrip(a, x)

\* ci->clock_config_get(...)
clock_config_get(clk_id, oem_type, enabled, a, x) ==
    IF clock_config = "v2"
    THEN scmi_clock_config_get_v2(clk_id, oem_type, enabled, a, x)
    ELSE scmi_clock_config_get(clk_id, oem_type, enabled, a, x)

\* mutant: the domain id is not validated, as in scmi_clock_rate_get
Mut_enable(clk_id, a, x) ==
    IF scmi_clock_domain_lookup_err(clk_id)
    THEN clock_config_set(clk_id, CLK_STATE_ENABLE, NULL_OEM_TYPE, a, x)
    ELSE IF clk[clk_id].state_ctrl_forbidden THEN Rejected(EACCES)
    ELSE clock_config_set(clk_id, CLK_STATE_ENABLE, NULL_OEM_TYPE, a, x)

scmi_clock_enable(clk_id, a, x) ==
    IF scmi_clock_domain_lookup_err(clk_id) THEN Rejected(EINVAL)
    ELSE IF clk[clk_id].state_ctrl_forbidden THEN Rejected(EACCES)
    ELSE clock_config_set(clk_id, CLK_STATE_ENABLE, NULL_OEM_TYPE, a, x)

scmi_clock_disable(clk_id, a, x) ==
    IF scmi_clock_domain_lookup_err(clk_id) THEN Rejected(EINVAL)
    ELSE IF clk[clk_id].state_ctrl_forbidden THEN Rejected(EACCES)
    ELSE clock_config_set(clk_id, CLK_STATE_DISABLE, NULL_OEM_TYPE, a, x)

scmi_clock_state_get(clk_id, a, x) ==
    clock_config_get(clk_id, NULL_OEM_TYPE, TRUE, a, x)

scmi_clock_config_oem_set(clk_id, oem_type, a, x) ==
    clock_config_set(clk_id, CLK_STATE_UNCHANGED, oem_type, a, x)

scmi_clock_config_oem_get(clk_id, oem_type, a, x) ==
    clock_config_get(clk_id, oem_type, FALSE, a, x)

\* mutant: the selector check off by one
Mut_set_parent(clk_id, parent_id, a, x) ==
    IF scmi_clock_domain_lookup_err(clk_id) THEN Rejected(EINVAL)
    ELSE IF parent_id > clk[clk_id].num_parents THEN Rejected(EINVAL)
    ELSE IF clk[clk_id].parent_ctrl_forbidden THEN Rejected(EACCES)
    ELSE RoundTrip(a, x)

\* parent_id is the caller's selector: an index into clk->parents[]
scmi_clock_set_parent(clk_id, parent_id, a, x) ==
    IF scmi_clock_domain_lookup_err(clk_id) THEN Rejected(EINVAL)
    ELSE IF parent_id >= clk[clk_id].num_parents THEN Rejected(EINVAL)
    ELSE IF clk[clk_id].parent_ctrl_forbidden THEN Rejected(EACCES)
    ELSE RoundTrip(a, x)

\* mutant: the permission check is missing
Mut_rate_set_entry(clk_id, a) ==
    IF scmi_clock_domain_lookup_err(clk_id) THEN Rejected(EINVAL)
    ELSE IF a # OK THEN [ret |-> a, init |-> 1, sent |-> 0, put |-> 0]
    ELSE [ret |-> OK, init |-> 1, sent |-> 0, put |-> 0]

\* scmi_clock_rate_set up to xfer_get_init: the early return, or "go on"
scmi_clock_rate_set_entry(clk_id, a) ==
    IF scmi_clock_domain_lookup_err(clk_id) THEN Rejected(EINVAL)
    ELSE IF clk[clk_id].rate_ctrl_forbidden THEN Rejected(EACCES)
    ELSE IF a # OK THEN [ret |-> a, init |-> 1, sent |-> 0, put |-> 0]
    ELSE [ret |-> OK, init |-> 1, sent |-> 0, put |-> 0]

\* mutant: the counter is incremented whatever max_async_req is
Mut_AsyncCounted == TRUE

\* whether the admission check increments the counter at all
AsyncCounted == max_async_req > 0

\* mutant: the admission check lets one call too many through
Mut_AsyncAdmitted(inc_return) == inc_return <= max_async_req + 1

\* the comparison of the admission check, on atomic_inc_return's value
AsyncAdmitted(inc_return) == inc_return < max_async_req

\* whether a delayed response arrived that echoes another id than clk_id
EchoMismatch(clk_id, async, x, echo) == async /\ x = OK /\ echo # clk_id

\* mutant: the id the delayed response echoes is not looked at
Mut_RateSetResult(clk_id, async, x, echo) == x

\* the return value of the round trip of scmi_clock_rate_set: x from the
\* transport, echo the id of the delayed response
RateSetResult(clk_id, async, x, echo) ==
    IF async
    THEN IF x = OK THEN (IF echo = clk_id THEN OK ELSE EPROTO) ELSE x
    ELSE x

\* mutant: the counter is decremented on success only
Mut_AsyncReleased(ret) == max_async_req > 0 /\ ret = OK

\* whether the exit path of scmi_clock_rate_set decrements the counter
AsyncReleased(ret) == max_async_req > 0


(***************************************************************************)
(* Wire codec of the two paginated replies.                                *)
(***************************************************************************)
NUM_RETURNED(x) == x % 4096
RATE_DISCRETE(x) == (x \div 4096) % 2 = 0
NUM_REMAINING(x) == x \div 65536
NUM_PARENTS_RETURNED(x) == x % 256
NUM_PARENTS_REMAINING(x) == x \div 16777216

\* le32 num_rates_flags / num_parent_flags as the firmware packs them
RatesFlags(returned, remaining, continuous) ==
    returned + (IF continuous THEN 4096 ELSE 0) + remaining * 65536
ParentsFlags(returned, remaining) == returned + remaining * 16777216

\* t->rx.len of a CLOCK_DESCRIBE_RATES reply carrying n rate entries
RatesRxLen(n) == 4 + 8 * n

\* mutant: the array is sized by the entries of the first reply alone
Mut_possible_parents_update_state(s, c, r, alloc) ==
    LET s1 == [s EXCEPT !.num_returned = NUM_PARENTS_RETURNED(r.flags),
                        !.num_remaining = NUM_PARENTS_REMAINING(r.flags)]
        n == s1.num_returned + s1.num_remaining
    IN  IF s.max_resources = 0
        THEN IF alloc # OK
             THEN [ret |-> ENOMEM, st |-> s1,
                   clk |-> [c EXCEPT !.num_parents = 0, !.parents = <<>>]]
             ELSE [ret |-> OK, st |-> [s1 EXCEPT !.max_resources = n],
                   clk |-> [c EXCEPT !.num_parents = n,
                                     !.parents =
                                         [i \in 1..s1.num_returned |-> 0]]]
        ELSE [ret |-> OK, st |-> s1, clk |-> c]

(***************************************************************************)
(* iter_clk_possible_parents_update_state: st and the domain record after  *)
(* the reply r; alloc is what devm_kcalloc returns (OK or ENOMEM).         *)
(***************************************************************************)
iter_clk_possible_parents_update_state(s, c, r, alloc) ==
    LET s1 == [s EXCEPT !.num_returned = NUM_PARENTS_RETURNED(r.flags),
                        !.num_remaining = NUM_PARENTS_REMAINING(r.flags)]
        n == s1.num_returned + s1.num_remaining
    IN  IF s.max_resources = 0
        THEN IF alloc # OK
             THEN [ret |-> ENOMEM, st |-> s1,
                   clk |-> [c EXCEPT !.num_parents = 0, !.parents = <<>>]]
             ELSE [ret |-> OK, st |-> [s1 EXCEPT !.max_resources = n],
                   clk |-> [c EXCEPT !.num_parents = n,
                                     !.parents = [i \in 1..n |-> 0]]]
        ELSE [ret |-> OK, st |-> s1, clk |-> c]

\* mutant: the item is stored at its position within the page
Mut_possible_parents_process_response(c, s, loop_idx, r) ==
    [ret |-> OK, at |-> loop_idx,
     clk |-> [c EXCEPT !.parents[loop_idx + 1] =
                            r.possible_parents[loop_idx + 1]]]

\* iter_clk_possible_parents_process_response for item loop_idx of reply r;
\* at is the index of clk->parents[] it writes
iter_clk_possible_parents_process_response(c, s, loop_idx, r) ==
    [ret |-> OK, at |-> s.desc_index + loop_idx,
     clk |-> [c EXCEPT !.parents[s.desc_index + loop_idx + 1] =
                            r.possible_parents[loop_idx + 1]]]

\* mutant: no quirk, every out-of-spec continuous reply is refused
Mut_describe_update_state_no_quirk(s, c, r) ==
    LET flags == r.flags
        s1 == [s EXCEPT !.num_remaining = NUM_REMAINING(flags),
                        !.num_returned = NUM_RETURNED(flags)]
        c1 == [c EXCEPT !.rate_discrete = RATE_DISCRETE(flags)]
    IN  IF ~c1.rate_discrete /\ (s1.num_returned # 3 \/ s1.num_remaining # 0)
        THEN [ret |-> EPROTO, clk |-> c1, st |-> s1]
        ELSE [ret |-> OK, clk |-> c1, st |-> s1]

\* mutant: the quirk is limited to replies announcing a single entry
Mut_describe_update_state(s, c, r) ==
    LET flags == r.flags
        s1 == [s EXCEPT !.num_remaining = NUM_REMAINING(flags),
                        !.num_returned = NUM_RETURNED(flags)]
        c1 == [c EXCEPT !.rate_discrete = RATE_DISCRETE(flags)]
    IN  IF ~c1.rate_discrete /\ (s1.num_returned # 3 \/ s1.num_remaining # 0)
        THEN IF s1.num_returned = 1 /\ s1.num_remaining = 0
                /\ r.rx_len = RatesRxLen(3)
             THEN [ret |-> OK, clk |-> c1,
                   st |-> [s1 EXCEPT !.num_returned = 3, !.num_remaining = 0]]
             ELSE [ret |-> EPROTO, clk |-> c1, st |-> s1]
        ELSE [ret |-> OK, clk |-> c1, st |-> s1]

(***************************************************************************)
(* iter_clk_describe_update_state: st and the domain record after reply r. *)
(***************************************************************************)
iter_clk_describe_update_state(s, c, r) ==
    LET flags == r.flags
        s1 == [s EXCEPT !.num_remaining = NUM_REMAINING(flags),
                        !.num_returned = NUM_RETURNED(flags)]
        c1 == [c EXCEPT !.rate_discrete = RATE_DISCRETE(flags)]
    IN  IF ~c1.rate_discrete /\ (s1.num_returned # 3 \/ s1.num_remaining # 0)
        THEN IF s1.num_returned # 3 /\ s1.num_remaining = 0
                /\ r.rx_len = RatesRxLen(3)
             THEN [ret |-> OK, clk |-> c1,
                   st |-> [s1 EXCEPT !.num_returned = 3, !.num_remaining = 0]]
             ELSE [ret |-> EPROTO, clk |-> c1, st |-> s1]
        ELSE [ret |-> OK, clk |-> c1, st |-> s1]

\* iter_clk_describe_process_response for item loop_idx of reply r; at is
\* the index of clk->list.rates[] it writes, -1 when it writes none
iter_clk_describe_process_response(c, s, loop_idx, r) ==
    IF ~c.rate_discrete
    THEN CASE s.desc_index + loop_idx = 0 ->
                [ret |-> OK, at |-> -1,
                 clk |-> [c EXCEPT !.range.min_rate = r.rate[1]]]
           [] s.desc_index + loop_idx = 1 ->
                [ret |-> OK, at |-> -1,
                 clk |-> [c EXCEPT !.range.max_rate = r.rate[2]]]
           [] s.desc_index + loop_idx = 2 ->
                [ret |-> OK, at |-> -1,
                 clk |-> [c EXCEPT !.range.step_size = r.rate[3]]]
           [] OTHER -> [ret |-> EINVAL, at |-> -1, clk |-> c]
    ELSE [ret |-> OK, at |-> s.desc_index + loop_idx,
          clk |-> [c EXCEPT !.list.rates[s.desc_index + loop_idx + 1] =
                                 r.rate[loop_idx + 1],
                            !.list.num_rates = @ + 1]]

(***************************************************************************)
(* The choice of the configuration message variant at the end of           *)
(* scmi_clock_protocol_init.                                               *)
(***************************************************************************)
PROTOCOL_REV_MAJOR(v) == v[1]
PROTOCOL_REV_MINOR(v) == v[2]

ConfigVariant(v) ==
    IF PROTOCOL_REV_MAJOR(v) >= 2 /\ PROTOCOL_REV_MINOR(v) >= 1
    THEN "v2"
    ELSE "legacy"

(***************************************************************************)
(* The dispatcher's callers.                                               *)
(***************************************************************************)
NoCall ==
    [op |-> "none", clk_id |-> 0, arg |-> 0, ret |-> OK,
     init |-> 0, sent |-> 0, put |-> 0, async |-> FALSE, incs |-> 0, decs |-> 0,
     mismatch |-> FALSE, parent_id |-> -1]

\* the record of a call that returned, r being what it did with the
\* transport; parent_id is the cfg->parent_id a CLOCK_PARENT_SET request
\* carried, -1 when the call sent none
Returned(op, clk_id, arg, r) ==
    [op |-> op, clk_id |-> clk_id, arg |-> arg, ret |-> r.ret,
     init |-> r.init, sent |-> r.sent, put |-> r.put,
     async |-> FALSE, incs |-> 0, decs |-> 0, mismatch |-> FALSE,
     parent_id |-> -1]

\* the record of a scmi_clock_rate_set call that went through its round
\* trip; mismatch: the delayed response echoed another id than clk_id
RateSetReturned(clk_id, async, inc, ret, dec, mismatch) ==
    [op |-> "rate_set", clk_id |-> clk_id, arg |-> 0, ret |-> ret,
     init |-> 1, sent |-> 1, put |-> 1, async |-> async,
     incs |-> IF inc THEN 1 ELSE 0, decs |-> IF dec THEN 1 ELSE 0,
     mismatch |-> mismatch, parent_id |-> -1]

\* domain ids and arguments the callers pass
CallIds == 0..MaxClocks
OemTypes == {NULL_OEM_TYPE, 1}
Selectors == 0..2

\* domains as scmi_clock_protocol_init can leave them
Versions == {<<2, 0>>, <<2, 1>>, <<3, 0>>}
AllAllowed == {CLOCK_STATE_CONTROL_ALLOWED, CLOCK_PARENT_CONTROL_ALLOWED,
               CLOCK_RATE_CONTROL_ALLOWED}
PermWords == {AllAllowed} \cup {AllAllowed \ {b} : b \in AllAllowed}
ParentLists == {<<>>, <<1, 0>>}

Named(p) == [ZeroClk EXCEPT !.name = "clk", !.num_parents = Len(p), !.parents = p]

BuiltClks ==
    {ZeroClk} \cup
    { scmi_clock_get_permissions(Named(p), OK, perm) :
          perm \in PermWords, p \in ParentLists }

\* the domains that differ in what scmi_clock_rate_set reads
RateClks ==
    {ZeroClk} \cup
    { scmi_clock_get_permissions(Named(<<>>), OK, perm) :
          perm \in {AllAllowed, AllAllowed \ {CLOCK_RATE_CONTROL_ALLOWED}} }

\* struct scmi_iterator_state after iter_response_init(max_resources)
IterState(max_resources) ==
    [desc_index |-> 0, num_returned |-> 0, num_remaining |-> 0,
     max_resources |-> max_resources]

ZeroSt == IterState(0)

builderVars == <<pc, clkid, st, attributes, fw>>
tableVars == <<version, num_clocks, max_async_req, clk, clock_config>>

\* the state scmi_clock_protocol_init leaves, over the domains of Clks
Built(Vs, Clks) ==
    /\ pc = "done"
    /\ version \in Vs
    /\ clock_config = ConfigVariant(version)
    /\ num_clocks \in 1..MaxClocks
    /\ max_async_req \in 0..MaxAsync
    /\ cur_async_req = 0
    /\ clk \in [0..(num_clocks - 1) -> Clks]
    /\ inflight = EmptyBag
    /\ last = NoCall
    /\ clkid = num_clocks
    /\ st = ZeroSt
    /\ attributes = {}
    /\ fw = <<>>

Init == Built(Versions, BuiltClks)

\* mutant: a call that went through stores its argument in the domain record
Mut_Simple(op, clk_id, arg, r) ==
    /\ last' = Returned(op, clk_id, arg, r)
    /\ clk' = IF r.ret = OK /\ clk_id < num_clocks
              THEN [clk EXCEPT ![clk_id].enable_latency = arg]
              ELSE clk
    /\ UNCHANGED <<version, num_clocks, max_async_req, clock_config,
                   cur_async_req, inflight, builderVars>>

\* an operation that is one round trip and touches no shared state
Simple(op, clk_id, arg, r) ==
    /\ last' = Returned(op, clk_id, arg, r)
    /\ UNCHANGED <<tableVars, cur_async_req, inflight, builderVars>>

RateGet ==
    \E id \in CallIds, a \in AllocResults, x \in XferResults :
        Simple("rate_get", id, 0, scmi_clock_rate_get(id, a, x))

ParentGet ==
    \E id \in CallIds, a \in AllocResults, x \in XferResults :
        Simple("parent_get", id, 0, scmi_clock_get_parent(id, a, x))

Enable ==
    \E id \in CallIds, a \in AllocResults, x \in XferResults :
        Simple("enable", id, 0, scmi_clock_enable(id, a, x))

Disable ==
    \E id \in CallIds, a \in AllocResults, x \in XferResults :
        Simple("disable", id, 0, scmi_clock_disable(id, a, x))

StateGet ==
    \E id \in CallIds, a \in AllocResults, x \in XferResults :
        Simple("state_get", id, 0, scmi_clock_state_get(id, a, x))

ConfigOemSet ==
    \E id \in CallIds, o \in OemTypes, a \in AllocResults, x \in XferResults :
        Simple("config_oem_set", id, o, scmi_clock_config_oem_set(id, o, a, x))

ConfigOemGet ==
    \E id \in CallIds, o \in OemTypes, a \in AllocResults, x \in XferResults :
        Simple("config_oem_get", id, o, scmi_clock_config_oem_get(id, o, a, x))

\* mutant: the selector goes on the wire as it came
Mut_set_parent_cfg(clk_id, parent_id, past) ==
    [id |-> clk_id, parent_id |-> parent_id]

\* struct scmi_msg_clock_set_parent as scmi_clock_set_parent fills it; past
\* is what a read of clk->parents[] past its end would yield
set_parent_cfg(clk_id, parent_id, past) ==
    [id |-> clk_id,
     parent_id |-> IF parent_id < Len(clk[clk_id].parents)
                   THEN clk[clk_id].parents[parent_id + 1]
                   ELSE past]

ParentSet ==
    \E id \in CallIds, sel \in Selectors, a \in AllocResults, x \in XferResults,
       past \in CallIds :
        LET r == scmi_clock_set_parent(id, sel, a, x)
        IN  /\ last' = [Returned("parent_set", id, sel, r) EXCEPT
                            !.parent_id =
                                IF r.sent = 1
                                THEN set_parent_cfg(id, sel, past).parent_id
                                ELSE -1]
            /\ UNCHANGED <<tableVars, cur_async_req, inflight, builderVars>>

\* evt_2_cmd: the command that switches each event on and off
evt_2_cmd == <<"CLOCK_RATE_NOTIFY", "CLOCK_RATE_CHANGE_REQUESTED_NOTIFY">>

\* scmi_clk_set_notify_enabled, with scmi_clk_rate_notify's round trip
scmi_clk_set_notify_enabled(evt_id, src_id, a, x) ==
    IF evt_id >= Len(evt_2_cmd) THEN Rejected(EINVAL) ELSE RoundTrip(a, x)

\* the event adapter switching the notifications of one domain
SetNotifyEnabled ==
    \E e \in 0..Len(evt_2_cmd), id \in CallIds, a \in AllocResults,
       x \in XferResults :
        Simple("set_notify_enabled", id, e,
               scmi_clk_set_notify_enabled(e, id, a, x))

(***************************************************************************)
(* scmi_clock_rate_set by one caller with nobody else inside it: the whole *)
(* function in one step.                                                   *)
(***************************************************************************)
RateSet ==
    /\ \E id \in CallIds, a \in AllocResults, x \in XferResults, echo \in CallIds :
        LET e == scmi_clock_rate_set_entry(id, a)
            inc == AsyncCounted
            seen == IF inc THEN cur_async_req + 1 ELSE 0
            async == inc /\ AsyncAdmitted(seen)
            ret == RateSetResult(id, async, x, echo)
            dec == AsyncReleased(ret)
        IN  IF e.ret # OK
            THEN /\ last' = Returned("rate_set", id, 0, e)
                 /\ UNCHANGED cur_async_req
            ELSE /\ cur_async_req' = cur_async_req + (IF inc THEN 1 ELSE 0)
                                                   - (IF dec THEN 1 ELSE 0)
                 /\ last' = RateSetReturned(id, async, inc, ret, dec,
                                            EchoMismatch(id, async, x, echo))
    /\ UNCHANGED <<tableVars, inflight, builderVars>>

Next ==
    \/ RateGet
    \/ RateSet
    \/ Enable
    \/ Disable
    \/ StateGet
    \/ ConfigOemSet
    \/ ConfigOemGet
    \/ ParentSet
    \/ ParentGet
    \/ SetNotifyEnabled

Spec == Init /\ [][Next]_vars

(***************************************************************************)
(* scmi_clock_rate_set with callers overlapping, in two steps per call: up *)
(* to the request being handed to the transport (the admission check       *)
(* included), and from the transport's answer to the return.               *)
(***************************************************************************)
RateInit == Built({<<2, 1>>}, RateClks)

RateSetBegin ==
    /\ BagCardinality(inflight) < NumThreads
    /\ \E id \in CallIds, a \in AllocResults :
        LET e == scmi_clock_rate_set_entry(id, a)
            inc == AsyncCounted
            seen == IF inc THEN cur_async_req + 1 ELSE 0
            call == [clk_id |-> id, async |-> inc /\ AsyncAdmitted(seen),
                     seen |-> seen, inc |-> inc]
        IN  IF e.ret # OK
            THEN /\ last' = Returned("rate_set", id, 0, e)
                 /\ UNCHANGED <<cur_async_req, inflight>>
            ELSE /\ cur_async_req' = cur_async_req + (IF inc THEN 1 ELSE 0)
                 /\ inflight' = inflight (+) SetToBag({call})
                 /\ UNCHANGED last
    /\ UNCHANGED <<tableVars, builderVars>>

RateSetEnd ==
    /\ \E call \in BagToSet(inflight), x \in XferResults, echo \in CallIds :
        LET ret == RateSetResult(call.clk_id, call.async, x, echo)
            dec == AsyncReleased(ret)
        IN  /\ cur_async_req' = cur_async_req - (IF dec THEN 1 ELSE 0)
            /\ last' = RateSetReturned(call.clk_id, call.async, call.inc, ret, dec,
                           EchoMismatch(call.clk_id, call.async, x, echo))
            /\ inflight' = inflight (-) SetToBag({call})
    /\ UNCHANGED <<tableVars, builderVars>>

RateNext == RateSetBegin \/ RateSetEnd

SpecRate == RateInit /\ [][RateNext]_vars

(***************************************************************************)
(* scmi_clock_protocol_init, request by request.                           *)
(***************************************************************************)

\* struct scmi_iterator_ops: the callbacks of the two enumerations; alloc is
\* what devm_kcalloc returns to the parents' update_state
ops_update_state(ops, s, c, r, alloc) ==
    IF ops = "describe_rates"
    THEN iter_clk_describe_update_state(s, c, r)
    ELSE iter_clk_possible_parents_update_state(s, c, r, alloc)

ops_process_response(ops, c, s, loop_idx, r) ==
    IF ops = "describe_rates"
    THEN iter_clk_describe_process_response(c, s, loop_idx, r)
    ELSE iter_clk_possible_parents_process_response(c, s, loop_idx, r)

\* mutant: the loop goes on for as long as the firmware announces more
Mut_LoopGoesOn(num_returned, num_remaining) == num_remaining # 0

\* the condition on which the loop of the paginated iterator sends another
\* request after a page it processed without error
LoopGoesOn(num_returned, num_remaining) ==
    num_returned # 0 /\ num_remaining # 0

\* One pass of the loop of the paginated iterator (iter_response_run) on
\* reply r: send with the resume index, update_state, the check against the
\* cap, process_response per returned item, advance the resume index.  more
\* says whether the loop goes round again: it stops on an error, on
\* remaining = 0 and on an empty page.  touched holds the indexes of the
\* destination that the calls of process_response wrote.
scmi_iterator_run_pass(ops, s, c, r, alloc) ==
    IF r.xfer # OK
    THEN [ret |-> r.xfer, st |-> s, clk |-> c, more |-> FALSE, touched |-> {}]
    ELSE LET u == ops_update_state(ops, s, c, r, alloc)
             n == u.st.num_returned
             item[i \in 0..n] ==
                 IF i = 0 THEN [ret |-> OK, at |-> -1, clk |-> u.clk]
                 ELSE IF item[i - 1].ret # OK THEN item[i - 1]
                 ELSE ops_process_response(ops, item[i - 1].clk, u.st, i - 1, r)
             touched == {item[i].at : i \in {k \in 1..n : item[k - 1].ret = OK}}
                            \ {-1}
         IN  IF u.ret # OK
             THEN [ret |-> u.ret, st |-> u.st, clk |-> u.clk, more |-> FALSE,
                   touched |-> {}]
             ELSE IF n > u.st.max_resources - u.st.desc_index
             THEN [ret |-> EINVAL, st |-> u.st, clk |-> u.clk, more |-> FALSE,
                   touched |-> {}]
             ELSE IF item[n].ret # OK
             THEN [ret |-> item[n].ret, st |-> u.st, clk |-> item[n].clk,
                   more |-> FALSE, touched |-> touched]
             ELSE [ret |-> OK, clk |-> item[n].clk,
                   st |-> [u.st EXCEPT !.desc_index = @ + n],
                   more |-> LoopGoesOn(n, u.st.num_remaining),
                   touched |-> touched]

\* sort(clk->list.rates, clk->list.num_rates, ..., rate_cmp_func, NULL)
SortRates(list) ==
    LET n == list.num_rates
        sorted == SortSeq(SubSeq(list.rates, 1, n), LAMBDA a, b : a < b)
    IN  [list EXCEPT !.rates = [i \in DOMAIN list.rates |->
                                   IF i <= n THEN sorted[i] ELSE list.rates[i]]]

\* scmi_clock_describe_rates_get after the iterator returned ret
scmi_clock_describe_rates_finish(c, ret) ==
    IF ret # OK THEN c
    ELSE IF ~c.rate_discrete THEN c
    ELSE IF c.list.num_rates # 0 THEN [c EXCEPT !.list = SortRates(c.list)]
    ELSE c

\* what the firmware holds: a rate table, a (min, max, step) triplet and a
\* parent table, all addressed from index 0
FwRateTable == <<20, 10, 20, 10>>
FwRange == <<10, 40, 5>>
FwParentTable == <<1, 0>>
FwEntry(table, i) == table[(i % Len(table)) + 1]

\* The answers of a firmware that may be out of spec to one
\* CLOCK_DESCRIBE_RATES request with resume index idx: a transport failure,
\* or a reply whose entries are those of the rate table from idx on
\* (discrete) or the triplet (continuous), with any announced counts; a
\* continuous reply carries the triplet or as many entries as it announces.
AnyRateReplies(idx) ==
    {[xfer |-> ETIMEDOUT, flags |-> 0, rx_len |-> 0, rate |-> <<>>]} \cup
    {[xfer |-> OK, flags |-> RatesFlags(n, rem, FALSE), rx_len |-> RatesRxLen(n),
      rate |-> [j \in 1..n |-> FwEntry(FwRateTable, idx + j - 1)]] :
        n \in 0..MaxPage, rem \in 0..MaxRemaining} \cup
    {[xfer |-> OK, flags |-> RatesFlags(n, rem, TRUE), rx_len |-> RatesRxLen(3),
      rate |-> FwRange] :
        n \in 0..MaxPage, rem \in 0..MaxRemaining} \cup
    {[xfer |-> OK, flags |-> RatesFlags(n, rem, TRUE), rx_len |-> RatesRxLen(n),
      rate |-> SubSeq(FwRange, 1, n)] :
        n \in 0..2, rem \in 0..MaxRemaining}

\* The answers of a firmware that keeps to the protocol: a transport
\* failure, the next page of its SCMI_MAX_NUM_RATES discrete rates with the
\* true remaining count, or (to the first request) the triplet.
StrictRateReplies(idx) ==
    {[xfer |-> ETIMEDOUT, flags |-> 0, rx_len |-> 0, rate |-> <<>>]} \cup
    {[xfer |-> OK,
      flags |-> RatesFlags(n, SCMI_MAX_NUM_RATES - idx - n, FALSE),
      rx_len |-> RatesRxLen(n),
      rate |-> [j \in 1..n |-> FwEntry(FwRateTable, idx + j - 1)]] :
        n \in 1..(SCMI_MAX_NUM_RATES - idx)} \cup
    (IF idx = 0
     THEN {[xfer |-> OK, flags |-> RatesFlags(3, 0, TRUE),
            rx_len |-> RatesRxLen(3), rate |-> FwRange]}
     ELSE {})

RateReplies(strict, idx) ==
    IF strict THEN StrictRateReplies(idx) ELSE AnyRateReplies(idx)

AnyParentReplies(idx) ==
    {[xfer |-> ETIMEDOUT, flags |-> 0, possible_parents |-> <<>>]} \cup
    {[xfer |-> OK, flags |-> ParentsFlags(n, rem),
      possible_parents |-> [j \in 1..n |-> FwEntry(FwParentTable, idx + j - 1)]] :
        n \in 0..MaxPage, rem \in 0..MaxRemaining}

StrictParentReplies(idx) ==
    {[xfer |-> ETIMEDOUT, flags |-> 0, possible_parents |-> <<>>]} \cup
    {[xfer |-> OK, flags |-> ParentsFlags(n, Len(FwParentTable) - idx - n),
      possible_parents |-> [j \in 1..n |-> FwEntry(FwParentTable, idx + j - 1)]] :
        n \in 1..(Len(FwParentTable) - idx)}

ParentReplies(strict, idx) ==
    IF strict THEN StrictParentReplies(idx) ELSE AnyParentReplies(idx)

\* what the attribute word can advertise
SUPPORTS_RATE_CHANGED_NOTIF(x) == TestBit(x, 31)
SUPPORTS_RATE_CHANGE_REQUESTED_NOTIF(x) == TestBit(x, 30)
SUPPORTS_EXTENDED_NAMES(x) == TestBit(x, 29)
SUPPORTS_PARENT_CLOCK(x) == TestBit(x, 28)
SUPPORTS_GET_PERMISSIONS(x) == TestBit(x, 1)

\* (u32)~0U, written as the same bits read signed: TLC has 32-bit integers
U32_MAX == -1

\* versions and attribute words the firmware answers with
BuildVersions == {<<1, 0>>, <<2, 0>>, <<2, 1>>, <<3, 0>>}
AttrWords == {{}, {28}, {1}, {29, 30, 31}}
Latencies == {0, 7}

\* the record of what happened to one domain during init
ZeroFw ==
    [attr_ret |-> "none", parents_ret |-> "none", parents_pages |-> 0,
     rates_ret |-> "none", rates_pages |-> 0, served |-> <<>>, triplet |-> -1,
     cont |-> "none", perms_adv |-> FALSE, perms_ret |-> "none", perm |-> {},
     parents_hi |-> 0, parents_reqs |-> 0, parents_end |-> "none",
     rates_reqs |-> 0, rates_end |-> "none"]

\* scmi_clock_attributes_get up to xfer_put: the record after the
\* CLOCK_ATTRIBUTES round trip returned ret with attribute word w, latency
\* lat, and the extended name fetch returned ext
scmi_clock_attributes_get(c, ret, w, lat, ext) ==
    IF ret # OK THEN c
    ELSE LET latency == IF PROTOCOL_REV_MAJOR(version) >= 2 THEN lat ELSE 0
             c1 == [c EXCEPT !.name = "clk",
                             !.enable_latency =
                                 IF latency # 0 THEN latency ELSE U32_MAX]
         IN  IF PROTOCOL_REV_MAJOR(version) >= 2
             THEN [c1 EXCEPT
                     !.name = IF SUPPORTS_EXTENDED_NAMES(w) /\ ext = OK
                              THEN "clk_extended" ELSE @,
                     !.rate_changed_notifications =
                         IF SUPPORTS_RATE_CHANGED_NOTIF(w) THEN TRUE ELSE @,
                     !.rate_change_requested_notifications =
                         IF SUPPORTS_RATE_CHANGE_REQUESTED_NOTIF(w) THEN TRUE ELSE @]
             ELSE c1

BuildInit ==
    /\ pc = "start"
    /\ version = <<0, 0>>
    /\ num_clocks = 0
    /\ max_async_req = 0
    /\ cur_async_req = 0
    /\ clk = <<>>
    /\ clock_config = "unset"
    /\ inflight = EmptyBag
    /\ last = NoCall
    /\ clkid = 0
    /\ st = ZeroSt
    /\ attributes = {}
    /\ fw = <<>>

dispatchVars == <<cur_async_req, inflight>>

\* the return of scmi_clock_protocol_init
InitReturned(ret) == [NoCall EXCEPT !.op = "protocol_init", !.ret = ret]

\* version_get, the allocation of clock_info, PROTOCOL_ATTRIBUTES and the
\* allocation of the domain table
ProtocolInitBegin(Counts) ==
    /\ pc = "start"
    /\ \E v \in BuildVersions, vret \in XferResults, a \in AllocResults,
          x \in XferResults, n \in Counts, m \in {0, MaxAsync} :
        LET ret == IF vret # OK THEN vret ELSE RoundTrip(a, x).ret
        IN  IF ret # OK
            THEN /\ pc' = "failed"
                 /\ last' = InitReturned(ret)
                 /\ UNCHANGED <<tableVars, clkid, fw>>
            ELSE /\ version' = v
                 /\ num_clocks' = n
                 /\ max_async_req' = m
                 /\ clk' = [i \in 0..(n - 1) |-> ZeroClk]
                 /\ fw' = [i \in 0..(n - 1) |-> ZeroFw]
                 /\ clkid' = 0
                 /\ pc' = IF n > 0 THEN "attrs" ELSE "select"
                 /\ UNCHANGED <<clock_config, last>>
    /\ UNCHANGED <<dispatchVars, st, attributes>>

\* the loop of scmi_clock_protocol_init moves on to the next domain
NextClock ==
    /\ clkid' = clkid + 1
    /\ pc' = IF clkid + 1 < num_clocks THEN "attrs" ELSE "select"
    /\ st' = ZeroSt
    /\ attributes' = {}

\* where scmi_clock_attributes_get goes after the parents
AfterParents(w) ==
    IF SUPPORTS_GET_PERMISSIONS(w)
    THEN pc' = "perms" /\ st' = ZeroSt
    ELSE pc' = "rates" /\ st' = IterState(SCMI_MAX_NUM_RATES)

\* scmi_clock_attributes_get: the CLOCK_ATTRIBUTES round trip
AttributesGet ==
    /\ pc = "attrs"
    /\ \E a \in AllocResults, x \in XferResults, w \in AttrWords,
          lat \in Latencies, ext \in XferResults :
        LET ret == RoundTrip(a, x).ret
        IN  /\ clk' = [clk EXCEPT ![clkid] =
                          scmi_clock_attributes_get(@, ret, w, lat, ext)]
            /\ fw' = [fw EXCEPT ![clkid].attr_ret = ret,
                                ![clkid].perms_adv =
                                    ret = OK /\ SUPPORTS_GET_PERMISSIONS(w)]
            /\ IF ret # OK
               THEN NextClock
               ELSE /\ attributes' = w
                    /\ clkid' = clkid
                    /\ IF PROTOCOL_REV_MAJOR(version) >= 2
                       THEN IF SUPPORTS_PARENT_CLOCK(w)
                            THEN pc' = "parents" /\ st' = IterState(0)
                            ELSE AfterParents(w)
                       ELSE pc' = "rates" /\ st' = IterState(SCMI_MAX_NUM_RATES)
    /\ UNCHANGED <<version, num_clocks, max_async_req, clock_config,
                   dispatchVars, last>>

\* how the loop of the iterator ended with the pass p: on an error, on
\* remaining = 0, with the resume index at the cap, or on an empty page
\* short of both
LoopEnd(p) ==
    IF p.ret # OK THEN "error"
    ELSE IF p.st.num_remaining = 0 THEN "drained"
    ELSE IF p.st.desc_index = p.st.max_resources THEN "cap"
    ELSE "empty"

\* one more than the highest index written so far, hi being that before the
\* writes at the indexes of touched
WrittenBelow(hi, touched) ==
    LET all == {hi} \cup {i + 1 : i \in touched}
    IN  CHOOSE m \in all : \A x \in all : x <= m

\* scmi_clock_possible_parents: iter_response_init, then one pass of
\* iter_response_run per step
ParentsPage(strict) ==
    /\ pc = "parents"
    /\ \E r \in ParentReplies(strict, st.desc_index),
          alloc \in (IF st.max_resources = 0 THEN AllocResults ELSE {OK}),
          ii \in (IF fw[clkid].parents_pages = 0 THEN AllocResults ELSE {OK}) :
        LET p == scmi_iterator_run_pass("possible_parents", st, clk[clkid], r,
                                        alloc)
        IN  IF ii # OK
            THEN /\ fw' = [fw EXCEPT ![clkid].parents_ret = ii,
                                     ![clkid].parents_end = "error"]
                 /\ AfterParents(attributes)
                 /\ UNCHANGED clk
            ELSE /\ clk' = [clk EXCEPT ![clkid] = p.clk]
                 /\ IF p.more
                    THEN /\ st' = p.st
                         /\ pc' = pc
                         /\ fw' = [fw EXCEPT
                                ![clkid].parents_pages = @ + 1,
                                ![clkid].parents_reqs = @ + 1,
                                ![clkid].parents_hi = WrittenBelow(@, p.touched)]
                    ELSE /\ fw' = [fw EXCEPT
                                ![clkid].parents_ret = p.ret,
                                ![clkid].parents_pages =
                                    IF p.ret = OK THEN @ + 1 ELSE @,
                                ![clkid].parents_reqs = @ + 1,
                                ![clkid].parents_end = LoopEnd(p),
                                ![clkid].parents_hi = WrittenBelow(@, p.touched)]
                         /\ AfterParents(attributes)
    /\ UNCHANGED <<version, num_clocks, max_async_req, clock_config,
                   dispatchVars, last, clkid, attributes>>

\* scmi_clock_get_permissions
GetPermissions ==
    /\ pc = "perms"
    /\ \E a \in AllocResults, x \in XferResults, perm \in PermWords :
        LET ret == RoundTrip(a, x).ret
        IN  /\ clk' = [clk EXCEPT ![clkid] =
                          scmi_clock_get_permissions(@, ret, perm)]
            /\ fw' = [fw EXCEPT ![clkid].perms_ret = ret,
                                ![clkid].perm = IF ret = OK THEN perm ELSE {}]
    /\ pc' = "rates"
    /\ st' = IterState(SCMI_MAX_NUM_RATES)
    /\ UNCHANGED <<version, num_clocks, max_async_req, clock_config,
                   dispatchVars, last, clkid, attributes>>

\* the announced count of a continuous reply with remaining = 0 and the
\* length of a triplet, received at resume index 0; -1 for any other reply
Triplet(s, r) ==
    IF r.xfer = OK /\ ~RATE_DISCRETE(r.flags) /\ NUM_REMAINING(r.flags) = 0
       /\ r.rx_len = RatesRxLen(3) /\ s.desc_index = 0
    THEN NUM_RETURNED(r.flags)
    ELSE -1

\* what kind of continuous reply r is: the (min, max, step) the protocol
\* asks for, one the quirk covers (another announced count with remaining
\* = 0 and the length of a triplet), or one it does not cover
ContinuousKind(r) ==
    IF r.xfer # OK \/ RATE_DISCRETE(r.flags) THEN "none"
    ELSE IF NUM_RETURNED(r.flags) = 3 /\ NUM_REMAINING(r.flags) = 0
    THEN "conformant"
    ELSE IF NUM_REMAINING(r.flags) = 0 /\ r.rx_len = RatesRxLen(3)
    THEN "quirk"
    ELSE "unfixable"

\* scmi_clock_describe_rates_get: iter_response_init, then one pass of
\* iter_response_run per step, then the sort
RatesPage(strict) ==
    /\ pc = "rates"
    /\ \E r \in RateReplies(strict, st.desc_index),
          ii \in (IF fw[clkid].rates_pages = 0 THEN AllocResults ELSE {OK}) :
        LET p == scmi_iterator_run_pass("describe_rates", st, clk[clkid], r, OK)
            read == IF p.ret = OK /\ p.clk.rate_discrete
                    THEN SubSeq(r.rate, 1, p.st.num_returned)
                    ELSE <<>>
        IN  IF ii # OK
            THEN /\ fw' = [fw EXCEPT ![clkid].rates_ret = ii,
                                     ![clkid].rates_end = "error"]
                 /\ NextClock
                 /\ UNCHANGED clk
            ELSE IF p.more
            THEN /\ clk' = [clk EXCEPT ![clkid] = p.clk]
                 /\ st' = p.st
                 /\ fw' = [fw EXCEPT ![clkid].rates_pages = @ + 1,
                                     ![clkid].rates_reqs = @ + 1,
                                     ![clkid].served = @ \o read,
                                     ![clkid].triplet = Triplet(st, r),
                                     ![clkid].cont = ContinuousKind(r)]
                 /\ UNCHANGED <<pc, clkid, attributes>>
            ELSE /\ clk' = [clk EXCEPT ![clkid] =
                               scmi_clock_describe_rates_finish(p.clk, p.ret)]
                 /\ fw' = [fw EXCEPT
                        ![clkid].rates_ret = p.ret,
                        ![clkid].rates_pages = IF p.ret = OK THEN @ + 1 ELSE @,
                        ![clkid].rates_reqs = @ + 1,
                        ![clkid].rates_end = LoopEnd(p),
                        ![clkid].served = @ \o read,
                        ![clkid].triplet = Triplet(st, r),
                        ![clkid].cont = ContinuousKind(r)]
                 /\ NextClock
    /\ UNCHANGED <<version, num_clocks, max_async_req, clock_config,
                   dispatchVars, last>>

\* the choice of the configuration variant, and set_priv
SelectConfig ==
    /\ pc = "select"
    /\ clock_config' = ConfigVariant(version)
    /\ \E sp \in AllocResults :
        /\ pc' = IF sp = OK THEN "done" ELSE "failed"
        /\ last' = InitReturned(sp)
    /\ UNCHANGED <<version, num_clocks, max_async_req, clk, dispatchVars,
                   clkid, st, attributes, fw>>

\* scmi_clock_protocol_init against a firmware with up to MaxInitClocks
\* domains that keeps to the protocol, or fails
BuildNext ==
    \/ ProtocolInitBegin(0..MaxInitClocks)
    \/ AttributesGet
    \/ ParentsPage(TRUE)
    \/ GetPermissions
    \/ RatesPage(TRUE)
    \/ SelectConfig

SpecBuild == BuildInit /\ [][BuildNext]_vars

\* scmi_clock_protocol_init against a firmware with one domain whose
\* paginated replies may be out of spec
EnumNext ==
    \/ ProtocolInitBegin({1})
    \/ AttributesGet
    \/ ParentsPage(FALSE)
    \/ GetPermissions
    \/ RatesPage(FALSE)
    \/ SelectConfig

SpecEnum == BuildInit /\ [][EnumNext]_vars

\* scmi_clock_protocol_init from the point where the attributes of its one
\* domain are fetched and advertise parents: the two enumerations, against
\* a firmware whose replies may be out of spec
LoopAttributes == {28}

LoopInit ==
    /\ pc = "parents"
    /\ version = <<2, 1>>
    /\ num_clocks = 1
    /\ max_async_req = 0
    /\ cur_async_req = 0
    /\ clk = [i \in {0} |->
                 scmi_clock_attributes_get(ZeroClk, OK, LoopAttributes, 0, OK)]
    /\ clock_config = "unset"
    /\ inflight = EmptyBag
    /\ last = NoCall
    /\ clkid = 0
    /\ st = IterState(0)
    /\ attributes = LoopAttributes
    /\ fw = [i \in {0} |-> [ZeroFw EXCEPT !.attr_ret = OK]]

LoopNext ==
    \/ ParentsPage(FALSE)
    \/ RatesPage(FALSE)
    \/ SelectConfig

\* scmi_clock_protocol_init runs on: it is one thread of straight-line
\* code, and every request it waits for is answered or times out
SpecLoop == LoopInit /\ [][LoopNext]_vars /\ WF_vars(LoopNext)

\* scmi_clock_protocol_init against a firmware with one domain that keeps
\* to the protocol, or fails
StrictNext ==
    \/ ProtocolInitBegin({1})
    \/ AttributesGet
    \/ ParentsPage(TRUE)
    \/ GetPermissions
    \/ RatesPage(TRUE)
    \/ SelectConfig

SpecStrict == BuildInit /\ [][StrictNext]_vars

(***************************************************************************)
(* What a consumer reads once the protocol is initialised.                 *)
(***************************************************************************)
scmi_clock_count_get == num_clocks

\* scmi_clk_get_num_sources: -EINVAL while get_priv returns NULL
scmi_clk_get_num_sources ==
    IF pc # "done" THEN [ret |-> EINVAL, n |-> 0]
    ELSE [ret |-> OK, n |-> num_clocks]

\* mutant: a domain without a name is returned like any other
Mut_info_get(clk_id) ==
    IF scmi_clock_domain_lookup_err(clk_id) THEN <<>>
    ELSE <<clk[clk_id]>>

\* scmi_clock_info_get: <<>> for NULL, else the one record
scmi_clock_info_get(clk_id) ==
    IF scmi_clock_domain_lookup_err(clk_id) THEN <<>>
    ELSE IF clk[clk_id].name = "" THEN <<>>
    ELSE <<clk[clk_id]>>

(***************************************************************************)
(* The 64-bit rate on the wire and the notification report.  A __le32 is   *)
(* WordBits wide here, a u64 twice that: the masks and shifts are those of *)
(* the code, on narrower words.                                            *)
(***************************************************************************)
WordBits == 4
Word == 2 ^ WordBits
U64(x) == x % (Word * Word)
Rates64 == 0..(Word * Word - 1)

\* scmi_clock_rate_set: cfg->value_low = cpu_to_le32(rate & 0xffffffff),
\* cfg->value_high = cpu_to_le32(rate >> 32)
cfg_value(rate) ==
    [value_low |-> rate % Word, value_high |-> (rate \div Word) % Word]

\* mutant: the high half is shifted as a 32-bit value
Mut_RATE_TO_U64(x) == U64(x.value_low + ((x.value_high * Word) % Word))

\* le32_to_cpu(value_low) | (u64)le32_to_cpu(value_high) << 32; the halves
\* share no bit, so the or is the sum
RATE_TO_U64(x) == U64(x.value_low + x.value_high * Word)

\* get_unaligned_le64(&p->rate_low): rate_low and rate_high read as one
\* little-endian u64
get_unaligned_le64(rate_low, rate_high) == U64(rate_low + rate_high * Word)

\* the events, as they index evt_2_cmd, and sizeof(struct
\* scmi_clock_rate_notify_payld)
SCMI_EVENT_CLOCK_RATE_CHANGED == 0
SCMI_EVENT_CLOCK_RATE_CHANGE_REQUESTED == 1
SIZEOF_RATE_NOTIFY_PAYLD == 16

\* mutant: only a short payload is refused
Mut_fill_custom_report(evt_id, timestamp, payld, payld_sz, report, src_id) ==
    IF payld_sz < SIZEOF_RATE_NOTIFY_PAYLD
       \/ (evt_id # SCMI_EVENT_CLOCK_RATE_CHANGED
           /\ evt_id # SCMI_EVENT_CLOCK_RATE_CHANGE_REQUESTED)
    THEN [ret |-> "NULL", report |-> report, src_id |-> src_id]
    ELSE [ret |-> "report",
          report |-> [timestamp |-> timestamp,
                      agent_id |-> payld.agent_id,
                      clock_id |-> payld.clock_id,
                      rate |-> get_unaligned_le64(payld.rate_low,
                                                  payld.rate_high)],
          src_id |-> payld.clock_id]

\* scmi_clk_fill_custom_report: what it returns, and the report buffer and
\* *src_id after it
scmi_clk_fill_custom_report(evt_id, timestamp, payld, payld_sz, report, src_id) ==
    IF SIZEOF_RATE_NOTIFY_PAYLD # payld_sz
       \/ (evt_id # SCMI_EVENT_CLOCK_RATE_CHANGED
           /\ evt_id # SCMI_EVENT_CLOCK_RATE_CHANGE_REQUESTED)
    THEN [ret |-> "NULL", report |-> report, src_id |-> src_id]
    ELSE [ret |-> "report",
          report |-> [timestamp |-> timestamp,
                      agent_id |-> payld.agent_id,
                      clock_id |-> payld.clock_id,
                      rate |-> get_unaligned_le64(payld.rate_low,
                                                  payld.rate_high)],
          src_id |-> payld.clock_id]

\* what the notification core passes in
EventIds == 0..2
PayloadSizes == {0, 12, 15, 16, 17, 20}
Payloads ==
    [agent_id : {0, 1}, clock_id : {0, 1},
     rate_low : {0, Word - 1}, rate_high : {0, 1}]
ReportBuffers ==
    {[timestamp |-> 0, agent_id |-> 0, clock_id |-> 0, rate |-> 0],
     [timestamp |-> 3, agent_id |-> 9, clock_id |-> 9, rate |-> 9]}
SrcIds == {0, 9}
Timestamps == {5}

CodecInit == Built({<<2, 1>>}, {ZeroClk}) /\ max_async_req = 0

FillCustomReport ==
    /\ \E e \in EventIds, t \in Timestamps, p \in Payloads,
          sz \in PayloadSizes, rep \in ReportBuffers, src \in SrcIds :
        last' = [op |-> "fill_custom_report", evt_id |-> e, timestamp |-> t,
                 payld |-> p, payld_sz |-> sz, report |-> rep, src_id |-> src,
                 out |-> scmi_clk_fill_custom_report(e, t, p, sz, rep, src)]
    /\ UNCHANGED <<tableVars, dispatchVars, builderVars>>

\* a rate encoded by scmi_clock_rate_set and decoded by RATE_TO_U64
RateCodec ==
    /\ \E rate \in Rates64 :
        last' = [op |-> "rate_codec", rate |-> rate, cfg |-> cfg_value(rate),
                 decoded |-> RATE_TO_U64(cfg_value(rate))]
    /\ UNCHANGED <<tableVars, dispatchVars, builderVars>>

CodecNext == FillCustomReport \/ RateCodec

SpecCodec == CodecInit /\ [][CodecNext]_vars

(***************************************************************************)
(* Claims.                                                                 *)
(***************************************************************************)

\* C1 (as stated): with max_async_req = M > 0, the call whose admission
\* check is the k-th among the calls in flight is sent with the async flag
\* for every k <= M, and without it for k = M + 1.
C1_FirstMaxCallsAsync ==
    \A c \in BagToSet(inflight) :
        max_async_req > 0 =>
            /\ (c.seen <= max_async_req => c.async)
            /\ (c.seen = max_async_req + 1 => ~c.async)

\* C2 (as stated): the outstanding counter stays within [0, max_async_req].
C2_CounterWithinMax == 0 <= cur_async_req /\ cur_async_req <= max_async_req

\* C2 (amended): the outstanding counter is never negative and counts the
\* scmi_clock_rate_set calls between their admission check and their
\* decrement when max_async_req > 0 (so the number of overlapping callers
\* bounds it, not max_async_req); it stays 0 when max_async_req = 0.
C2_CounterCountsInFlight ==
    /\ cur_async_req >= 0
    /\ cur_async_req = IF max_async_req > 0 THEN BagCardinality(inflight) ELSE 0

C2_Witness == max_async_req > 0 /\ cur_async_req > max_async_req

\* C3: with no scmi_clock_rate_set call in flight the counter is 0; a call
\* that went through its round trip decremented as often as it incremented,
\* whatever the round trip returned; a call that returned before the
\* admission check did neither.
C3_CounterBalanced ==
    /\ inflight = EmptyBag => cur_async_req = 0
    /\ last.op = "rate_set" => last.incs = last.decs
    /\ (last.op = "rate_set" /\ last.sent = 0) => (last.incs = 0 /\ last.decs = 0)

C3_Witness ==
    /\ last.op = "rate_set" /\ last.ret = EPROTO
    /\ last.incs = 1 /\ last.decs = 1
    /\ inflight = EmptyBag /\ cur_async_req = 0

\* what a call rejected for a forbidden control looks like
Denied ==
    /\ last.ret = EACCES
    /\ last.init = 0 /\ last.sent = 0 /\ last.put = 0
    /\ last.incs = 0 /\ last.decs = 0
    /\ cur_async_req = 0

\* C4: set_rate on a domain with rate control forbidden, enable/disable on a
\* domain with state control forbidden, and set_parent with an in-range
\* selector on a domain with parent control forbidden return -EACCES, make
\* no transport call and leave the outstanding counter alone.
C4_ForbiddenRejected ==
    last.clk_id < num_clocks =>
        /\ (last.op = "rate_set" /\ clk[last.clk_id].rate_ctrl_forbidden) => Denied
        /\ (last.op \in {"enable", "disable"} /\ clk[last.clk_id].state_ctrl_forbidden)
              => Denied
        /\ (last.op = "parent_set" /\ clk[last.clk_id].parent_ctrl_forbidden
              /\ last.arg < clk[last.clk_id].num_parents) => Denied

C4_Witness ==
    /\ last.op = "rate_set" /\ last.clk_id < num_clocks
    /\ clk[last.clk_id].rate_ctrl_forbidden
    /\ last.ret = EACCES /\ last.init = 0

DispatcherOps ==
    {"rate_get", "rate_set", "enable", "disable", "state_get",
     "config_oem_set", "config_oem_get", "parent_set", "parent_get"}

\* C5 (as stated): every dispatcher operation called with a domain id >=
\* clock_count returns the out-of-range error before any transport call.
C5_AllOpsValidateId ==
    (last.op \in DispatcherOps /\ last.clk_id >= num_clocks) =>
        (last.ret = EINVAL /\ last.init = 0 /\ last.sent = 0)

\* C5 (amended): set_rate, enable, disable and set_parent called with a
\* domain id >= clock_count return the out-of-range error (-EINVAL) before
\* any transport call.
C5_MutatorsValidateId ==
    (last.op \in {"rate_set", "enable", "disable", "parent_set"}
        /\ last.clk_id >= num_clocks) =>
        (last.ret = EINVAL /\ last.init = 0 /\ last.sent = 0)

C5_Witness ==
    /\ last.op = "enable" /\ last.clk_id >= num_clocks
    /\ last.ret = EINVAL /\ last.init = 0

\* C6: set_parent on an in-range domain with a selector >= the domain's
\* number of parents returns -EINVAL and allocates and sends no transfer.
C6_SelectorOutOfRange ==
    (last.op = "parent_set" /\ last.clk_id < num_clocks
        /\ last.arg >= clk[last.clk_id].num_parents) =>
        (last.ret = EINVAL /\ last.init = 0 /\ last.sent = 0)

C6_Witness ==
    /\ last.op = "parent_set" /\ last.clk_id < num_clocks
    /\ clk[last.clk_id].num_parents = 0 /\ last.arg = 0
    /\ last.ret = EINVAL /\ last.init = 0

\* the domains scmi_clock_protocol_init has worked on so far
Domains == DOMAIN fw

\* an enumeration or fetch that ended in an error
Failed(ret) == ret \notin {OK, "none"}

\* the (min, max, step) a domain holds
RangeOf(c) == <<c.range.min_rate, c.range.max_rate, c.range.step_size>>

\* the rates a domain holds, in the order they are stored
RatesOf(c) == SubSeq(c.list.rates, 1, c.list.num_rates)

\* C7 (as stated): a continuous reply to the first CLOCK_DESCRIBE_RATES
\* request with remaining = 0 and the length of a header plus 3 rate entries
\* is rejected with -EPROTO when it announces 2 returned entries, and is
\* accepted as (min, max, step) when it announces 1.
C7_TwoRejectedOneAccepted ==
    \A d \in Domains :
        /\ fw[d].triplet = 2 => fw[d].rates_ret = EPROTO
        /\ fw[d].triplet = 1 =>
               /\ fw[d].rates_ret = OK
               /\ ~clk[d].rate_discrete
               /\ RangeOf(clk[d]) = FwRange

\* C7 (amended): such a reply is accepted and stored as (min, max, step)
\* whatever count it announces, 2 as well as 1; the enumeration succeeds.
C7_TripletLengthAccepted ==
    \A d \in Domains :
        fw[d].triplet # -1 =>
            /\ fw[d].rates_ret = OK
            /\ ~clk[d].rate_discrete
            /\ RangeOf(clk[d]) = FwRange

C7_Witness ==
    \E d \in Domains :
        /\ fw[d].triplet = 2
        /\ fw[d].rates_ret = OK
        /\ ~clk[d].rate_discrete
        /\ RangeOf(clk[d]) = FwRange

\* C8 (as stated): once scmi_clock_protocol_init has returned 0, a domain
\* whose attribute fetch or rate enumeration failed is absent (its name is
\* empty and scmi_clock_info_get returns NULL), and every domain has been
\* worked on.
C8_FailedDomainAbsent ==
    pc = "done" =>
        \A d \in 0..(num_clocks - 1) :
            /\ fw[d].attr_ret # "none"
            /\ (Failed(fw[d].attr_ret) \/ Failed(fw[d].rates_ret)) =>
                   /\ clk[d].name = ""
                   /\ scmi_clock_info_get(d) = <<>>

\* C9 (as stated): an enumeration of rates or of parents that ended in an
\* error after at least one page had been processed leaves the domain with
\* zero rates, respectively zero parents.
C9_PartialDiscarded ==
    \A d \in Domains :
        /\ (Failed(fw[d].rates_ret) /\ fw[d].rates_pages >= 1) =>
               clk[d].list.num_rates = 0
        /\ (Failed(fw[d].parents_ret) /\ fw[d].parents_pages >= 1) =>
               (clk[d].num_parents = 0 /\ clk[d].parents = <<>>)

\* the values of a sequence with their multiplicities
BagOf(seq) == [v \in {seq[i] : i \in DOMAIN seq} |->
                  Cardinality({i \in DOMAIN seq : seq[i] = v})]

Ascending(seq) == \A i \in 1..(Len(seq) - 1) : seq[i] <= seq[i + 1]

\* C10 (as stated): after initialization every domain that is discrete and
\* holds at least one rate has its rates in ascending order, and they are
\* the values the firmware returned over all pages, duplicates kept,
\* whatever replies and failures occurred.
C10_SortedPermutation ==
    pc = "done" =>
        \A d \in 0..(num_clocks - 1) :
            (clk[d].rate_discrete /\ clk[d].list.num_rates >= 1) =>
                /\ Ascending(RatesOf(clk[d]))
                /\ BagOf(RatesOf(clk[d])) = BagOf(fw[d].served)

\* which representation of its rates a domain holds: list entries written
\* by iter_clk_describe_process_response, range fields written by it
HasList(c) == c.list.num_rates >= 1
HasRange(c) == RangeOf(c) # <<0, 0, 0>>

\* C11 (as stated): after scmi_clock_protocol_init returned 0, every domain
\* that scmi_clock_info_get returns holds exactly one representation of its
\* rates: list entries and rate_discrete, or range fields and not
\* rate_discrete; never both, never neither.
C11_ExactlyOneRepresentation ==
    pc = "done" =>
        \A d \in 0..(num_clocks - 1) :
            scmi_clock_info_get(d) # <<>> =>
                /\ HasList(clk[d]) # HasRange(clk[d])
                /\ HasList(clk[d]) => clk[d].rate_discrete
                /\ HasRange(clk[d]) => ~clk[d].rate_discrete

\* the first n entries the firmware holds
FwFirst(table, n) == [i \in 1..n |-> FwEntry(table, i - 1)]

\* C12: against a firmware that keeps to the protocol, the resume index of
\* the next request is the number of items of the pages received so far
\* (0, p1, p1 + p2, ...), each page took one request, the items received
\* so far sit at their absolute positions, and an enumeration that ended
\* without error holds all N items: the parents in firmware order, the
\* rates (which scmi_clock_describe_rates_get then sorts) as the sorted N.
C12_Pagination ==
    \A d \in Domains :
        /\ (d = clkid /\ pc = "rates") =>
               /\ st.desc_index = Len(fw[d].served)
               /\ fw[d].rates_pages <= st.desc_index
               /\ RatesOf(clk[d]) = FwFirst(FwRateTable, st.desc_index)
        /\ (d = clkid /\ pc = "parents") =>
               /\ fw[d].parents_pages <= st.desc_index
               /\ st.desc_index >= 1 =>
                      /\ clk[d].num_parents = Len(FwParentTable)
                      /\ SubSeq(clk[d].parents, 1, st.desc_index) =
                             FwFirst(FwParentTable, st.desc_index)
        /\ fw[d].parents_ret = OK =>
               /\ clk[d].num_parents = Len(FwParentTable)
               /\ clk[d].parents = FwParentTable
        /\ (fw[d].rates_ret = OK /\ clk[d].rate_discrete) =>
               /\ clk[d].list.num_rates = SCMI_MAX_NUM_RATES
               /\ fw[d].served = FwFirst(FwRateTable, SCMI_MAX_NUM_RATES)
               /\ RatesOf(clk[d]) =
                      SortSeq(fw[d].served, LAMBDA a, b : a < b)

C12_Witness ==
    \E d \in Domains :
        /\ fw[d].parents_ret = OK
        /\ fw[d].parents_pages = 2
        /\ clk[d].parents = FwParentTable
        /\ fw[d].rates_ret = OK
        /\ fw[d].rates_pages >= 2
        /\ clk[d].list.num_rates = SCMI_MAX_NUM_RATES

\* major.minor >= maj.min in version order
VersionAtLeast(v, maj, min) ==
    PROTOCOL_REV_MAJOR(v) > maj
        \/ (PROTOCOL_REV_MAJOR(v) = maj /\ PROTOCOL_REV_MINOR(v) >= min)

\* C13 (as stated): the configuration variant scmi_clock_protocol_init
\* stores is the v2 variant exactly when the negotiated version is at least
\* 2.1 in version order, and the legacy variant otherwise.
C13_VariantByVersionOrder ==
    pc = "done" =>
        clock_config = IF VersionAtLeast(version, 2, 1) THEN "v2" ELSE "legacy"

\* C14 (as stated): a set_oem_config or get_oem_config call is rejected
\* with an error and without any transport call whenever the version is
\* below 2.1 or the OEM type is zero.
C14_OemGated ==
    (last.op \in {"config_oem_set", "config_oem_get"}
        /\ (~VersionAtLeast(version, 2, 1) \/ last.arg = NULL_OEM_TYPE)) =>
        /\ last.ret # OK
        /\ last.init = 0
        /\ last.sent = 0

\* C15: every dispatcher operation, on every exit path, releases once the
\* transfer it allocated (an allocated transfer is always sent), and
\* releases nothing when the allocation failed or the call was rejected
\* before it.
C15_ReleasedExactlyOnce ==
    last.op \in DispatcherOps =>
        /\ last.init <= 1
        /\ last.sent = 1 => (last.init = 1 /\ last.put = 1)
        /\ last.sent = 0 => last.put = 0
        /\ last.init = 0 => (last.sent = 0 /\ last.put = 0)

C15_Witness ==
    /\ last.op = "parent_set"
    /\ last.ret = ETIMEDOUT
    /\ last.init = 1 /\ last.sent = 1 /\ last.put = 1

\* what C16 says of a state: info(id) is the domain record exactly when
\* id < clock_count and the name is not empty, and count() and
\* source_count() are clock_count
C16_Lookups ==
    /\ \A id \in CallIds :
           scmi_clock_info_get(id) =
               IF id < num_clocks /\ clk[id].name # "" THEN <<clk[id]>> ELSE <<>>
    /\ scmi_clock_count_get = num_clocks
    /\ scmi_clk_get_num_sources = [ret |-> OK, n |-> num_clocks]

\* C16: after initialization info(id) returns a domain record if and only
\* if id < clock_count and that domain's name is non-empty, count() and
\* source_count() return clock_count, and no operation changes it.
C16_InfoAndCount ==
    /\ []C16_Lookups
    /\ [][num_clocks' = num_clocks
            /\ scmi_clock_count_get' = scmi_clock_count_get]_vars

C16_Witness ==
    /\ last.op = "rate_set" /\ last.ret = OK
    /\ clk[0].name = ""
    /\ scmi_clock_info_get(0) = <<>>
    /\ scmi_clock_info_get(num_clocks) = <<>>
    /\ scmi_clock_count_get = num_clocks

\* C17: scmi_clk_fill_custom_report returns a filled report if and only if
\* the payload is exactly 16 bytes long and the event is RateChanged or
\* RateChangeRequested; otherwise it returns NULL and leaves the report
\* buffer and the source id as they were.
C17_DecodeReport ==
    last.op = "fill_custom_report" =>
        LET decodable == last.payld_sz = 16 /\ last.evt_id \in {0, 1}
        IN  /\ (last.out.ret = "report") <=> decodable
            /\ decodable =>
                   /\ last.out.report =
                          [timestamp |-> last.timestamp,
                           agent_id |-> last.payld.agent_id,
                           clock_id |-> last.payld.clock_id,
                           rate |-> last.payld.rate_low
                                        + last.payld.rate_high * Word]
                   /\ last.out.src_id = last.payld.clock_id
            /\ ~decodable =>
                   /\ last.out.ret = "NULL"
                   /\ last.out.report = last.report
                   /\ last.out.src_id = last.src_id

C17_Witness ==
    /\ last.op = "fill_custom_report"
    /\ last.payld_sz = 20 /\ last.evt_id = 1
    /\ last.report.agent_id = 9 /\ last.src_id = 9
    /\ last.out.ret = "NULL"
    /\ last.out.report = last.report /\ last.out.src_id = 9

\* C18: a 64-bit rate split into the (low, high) halves scmi_clock_rate_set
\* sends and recombined by RATE_TO_U64 is the same rate.
C18_RateRoundTrip ==
    last.op = "rate_codec" =>
        /\ last.cfg.value_low < Word /\ last.cfg.value_high < Word
        /\ last.decoded = last.rate

C18_Witness ==
    /\ last.op = "rate_codec"
    /\ last.cfg.value_high = 1 /\ last.cfg.value_low = 2
    /\ last.rate = Word + 2
    /\ last.decoded = last.rate

\* C19: a continuous reply with remaining = 0, the length of a header plus
\* 3 rate entries and an announced count other than 3 is not a protocol
\* error, and as the first reply of the enumeration it is stored as (min,
\* max, step) and ends the enumeration without error; a continuous reply
\* with a count other than 3 or remaining other than 0 that is not of that
\* shape ends the enumeration with -EPROTO.
C19_QuirkOrProtocolError ==
    \A d \in Domains :
        /\ fw[d].cont = "quirk" => fw[d].rates_ret # EPROTO
        /\ (fw[d].cont = "quirk" /\ fw[d].triplet # -1) =>
               /\ fw[d].triplet # 3
               /\ fw[d].rates_ret = OK
               /\ ~clk[d].rate_discrete
               /\ RangeOf(clk[d]) = FwRange
        /\ fw[d].cont = "unfixable" => fw[d].rates_ret = EPROTO

C19_Witness ==
    \E d \in Domains :
        /\ fw[d].cont = "unfixable"
        /\ fw[d].rates_ret = EPROTO
        /\ fw[d].rates_pages >= 1

\* C20: a set_rate call sent with CLOCK_SET_ASYNC whose delayed response
\* echoes another domain id returns -EPROTO, and still decrements the
\* outstanding counter and releases the transfer; a set_rate call that got
\* its transfer sends one request.
C20_EchoMismatch ==
    last.op = "rate_set" =>
        /\ last.mismatch =>
               /\ last.async
               /\ last.ret = EPROTO
               /\ last.incs = 1 /\ last.decs = 1
               /\ last.put = 1
        /\ last.ret \notin {EINVAL, EACCES, ENOMEM} => last.sent = 1
        /\ last.sent <= 1

C20_Witness ==
    /\ last.op = "rate_set" /\ last.mismatch
    /\ last.ret = EPROTO /\ last.decs = 1 /\ last.put = 1 /\ last.sent = 1
    /\ inflight # EmptyBag
    /\ cur_async_req = BagCardinality(inflight)

\* C21: once scmi_clock_protocol_init is over, no operation of the
\* dispatcher or of the event adapter, whatever its arguments and its
\* outcome, changes a domain record, the number of domains, max_async_req
\* or the configuration variant; of the state of clock_info only the
\* outstanding counter is written.
C21_TableReadOnly ==
    [][/\ clk' = clk
       /\ num_clocks' = num_clocks
       /\ max_async_req' = max_async_req
       /\ clock_config' = clock_config
       /\ version' = version]_vars

C21_Witness ==
    /\ last.op = "set_notify_enabled" /\ last.ret = OK /\ last.sent = 1
    /\ last.clk_id < num_clocks
    /\ clk[last.clk_id].name = "clk"
    /\ clk[last.clk_id].parents = <<1, 0>>
    /\ clk[last.clk_id].enable_latency = 0

\* C22: the three controls of a domain are all allowed whenever the
\* firmware did not advertise CLOCK_GET_PERMISSIONS for it or the fetch of
\* the permissions failed (or was never made); a forbidden flag is set only
\* when the fetch succeeded and the reply has the matching allowed bit
\* clear, and then it is set.
C22_PermissionsBestEffort ==
    \A d \in Domains :
        LET c == clk[d]
            f == fw[d]
        IN  /\ (~f.perms_adv \/ f.perms_ret # OK) =>
                   /\ ~c.state_ctrl_forbidden
                   /\ ~c.rate_ctrl_forbidden
                   /\ ~c.parent_ctrl_forbidden
            /\ c.state_ctrl_forbidden =>
                   (f.perms_ret = OK /\ CLOCK_STATE_CONTROL_ALLOWED \notin f.perm)
            /\ c.rate_ctrl_forbidden =>
                   (f.perms_ret = OK /\ CLOCK_RATE_CONTROL_ALLOWED \notin f.perm)
            /\ c.parent_ctrl_forbidden =>
                   (f.perms_ret = OK /\ CLOCK_PARENT_CONTROL_ALLOWED \notin f.perm)
            /\ f.perms_ret = OK =>
                   /\ f.perms_adv
                   /\ c.state_ctrl_forbidden =
                          (CLOCK_STATE_CONTROL_ALLOWED \notin f.perm)
                   /\ c.rate_ctrl_forbidden =
                          (CLOCK_RATE_CONTROL_ALLOWED \notin f.perm)
                   /\ c.parent_ctrl_forbidden =
                          (CLOCK_PARENT_CONTROL_ALLOWED \notin f.perm)

C22_Witness ==
    /\ pc = "done"
    /\ \E d \in Domains :
           /\ fw[d].perms_adv
           /\ fw[d].perms_ret = ETIMEDOUT
           /\ clk[d].name # ""
           /\ ~clk[d].state_ctrl_forbidden
           /\ ~clk[d].rate_ctrl_forbidden
           /\ ~clk[d].parent_ctrl_forbidden

\* C23: a set_parent(d, selector) call that reaches the transport carries as
\* parent id the firmware's domain id stored at position selector of the
\* parents of domain d, not the selector; a call that does not reach the
\* transport carries nothing.
C23_SelectorTranslated ==
    last.op = "parent_set" =>
        IF last.sent = 1
        THEN /\ last.clk_id < num_clocks
             /\ last.arg < clk[last.clk_id].num_parents
             /\ last.parent_id = clk[last.clk_id].parents[last.arg + 1]
        ELSE last.parent_id = -1

C23_Witness ==
    /\ last.op = "parent_set" /\ last.sent = 1 /\ last.ret = OK
    /\ last.arg = 1
    /\ clk[last.clk_id].parents = <<1, 0>>
    /\ last.parent_id = 0

\* the scmi_clock_rate_set calls in flight that were sent with
\* CLOCK_SET_ASYNC
AsyncInFlight ==
    LET sent == {c \in BagToSet(inflight) : c.async}
    IN  BagCardinality([c \in sent |-> inflight[c]])

\* C24: whatever the number of overlapping callers, the set_rate requests
\* in flight that were sent with the async flag are never more than
\* max_async_req, and there is none when max_async_req is 0.
C24_AsyncInFlightWithinMax ==
    /\ AsyncInFlight <= max_async_req
    /\ max_async_req = 0 => AsyncInFlight = 0

C24_Witness ==
    /\ max_async_req = MaxAsync
    /\ BagCardinality(inflight) = NumThreads
    /\ BagCardinality(inflight) > max_async_req
    /\ AsyncInFlight >= 1
    /\ \E c \in BagToSet(inflight) : ~c.async

EndedAs(kinds) ==
    \A d \in Domains :
        /\ fw[d].rates_end \in kinds \cup {"none"}
        /\ fw[d].parents_end \in kinds \cup {"none"}

\* an enumeration sends at most one request more than its cap: the rates
\* SCMI_MAX_NUM_RATES, the parents the size the first reply announced
RequestsBounded ==
    \A d \in Domains :
        /\ fw[d].rates_reqs <= SCMI_MAX_NUM_RATES + 1
        /\ fw[d].parents_reqs <= Len(clk[d].parents) + 1

\* an enumeration that is running comes to its end
LoopsEnd ==
    /\ (pc = "parents") ~> (pc # "parents")
    /\ (pc = "rates") ~> (pc # "rates")

====
